---- MODULE Spec2Model ----
(***************************************************************************)
(* The chunk merge engine of pkg/querier/batch/merge.go: partitionChunks,  *)
(* the iterator heap and the mergeIterator cursor (newMergeIterator, Seek,  *)
(* Next, buildNextBatch, AtTime, Batch, Err), with the legacy batchStream   *)
(* buffers (MergeableBatchStreamEnabled = false).                           *)
(*                                                                          *)
(* The per-partition iterator (nonOverlappingIterator), chunk.Batch and     *)
(* mergeStreams live in files of the package that are not part of the       *)
(* sources at hand; they are modelled from sections 3, 4.2 and 4.4 of the   *)
(* specification.                                                           *)
(***************************************************************************)
EXTENDS Integers, Sequences, FiniteSets, Bags, TLC

\* ------------------------------------------------------------------ bounds
\* Timestamps of the generated chunks are drawn from 0..MaxT.
MaxT == 2
\* The generated chunk sets hold at most MaxChunks chunks.
MaxChunks == 2
\* Next and Seek are called with a size hint in 1..MaxSize.
MaxSize == 2

\* The head of the ingester holds at most MaxSeries series.
MaxSeries == 3

Times == 0..MaxT
Sizes == 1..MaxSize
SeekTargets == 0..(MaxT + 1)

ValNone == "none"
ValFloat == "float"
ValHistogram == "histogram"
ValFloatHistogram == "floathistogram"
nil == "nil"

\* ------------------------------------------------------------- sequences
Last(s) == s[Len(s)]

RECURSIVE SeqOfSet(_)
\* The elements of a finite set of integers as an ascending sequence.
SeqOfSet(S) ==
  IF S = {} THEN <<>>
  ELSE LET m == CHOOSE x \in S : \A y \in S : x <= y
       IN <<m>> \o SeqOfSet(S \ {m})

Swap(s, i, j) == [s EXCEPT ![i] = s[j], ![j] = s[i]]

Range(s) == {s[i] : i \in DOMAIN s}

\* ----------------------------------------------------------------- chunks
\* A chunk of one series: its samples' timestamps ts (strictly ascending),
\* MinTime and MaxTime (inclusive bounds), the kind of its samples and the
\* identity id of the chunk, which stands for the values of its samples.
\* bad marks a chunk whose decoding fails.
MkChunk(id, kind, ts) ==
  [id |-> id, kind |-> kind, ts |-> ts, MinTime |-> ts[1], MaxTime |-> Last(ts),
   bad |-> FALSE]

\* The sample of chunk c at position k.
SampleAt(c, k) == [t |-> c.ts[k], v |-> c.id, k |-> c.kind]

\* -------------------------------------------------- sort.Sort(byMinTime)
byMinTimeLess(a, b) == a.MinTime < b.MinTime

RECURSIVE insertBack(_, _)
\* The inner loop of the insertion sort sort.Sort runs on slices of at most
\* 12 elements: for j := i; j > a && Less(j, j-1); j-- { Swap(j, j-1) }.
insertBack(s, j) ==
  IF j > 1 /\ byMinTimeLess(s[j], s[j - 1])
  THEN insertBack(Swap(s, j, j - 1), j - 1)
  ELSE s

RECURSIVE insertionSort(_, _)
insertionSort(s, i) ==
  IF i > Len(s) THEN s ELSE insertionSort(insertBack(s, i), i + 1)

sortNone(cs) == cs

sortByMinTime(cs) == insertionSort(cs, 2)

\* ------------------------------------------------------- partitionChunks
fitsTouching(last, c) == last.MaxTime <= c.MinTime

\* The test of the inner loop: the chunk goes behind the partition's last
\* chunk when that chunk ends strictly before it starts.
fits(last, c) == last.MaxTime < c.MinTime

RECURSIVE lastFit(_, _, _)
lastFit(css, c, i) ==
  IF i > Len(css) THEN 0
  ELSE LET r == lastFit(css, c, i + 1)
       IN IF r > 0 THEN r
          ELSE IF fits(Last(css[i]), c) THEN i ELSE 0

RECURSIVE firstFit(_, _, _)
\* The index of the first partition from i on that takes chunk c, 0 if none.
firstFit(css, c, i) ==
  IF i > Len(css) THEN 0
  ELSE IF fits(Last(css[i]), c) THEN i
  ELSE firstFit(css, c, i + 1)

placeChunkAlwaysNew(css, c) == Append(css, <<c>>)

placeChunkOverwrite(css, c) ==
  LET i == firstFit(css, c, 1)
  IN IF i > 0 THEN [css EXCEPT ![i] = <<c>>]
     ELSE Append(css, <<c>>)

\* One round of the outer loop.
placeChunk(css, c) ==
  LET i == firstFit(css, c, 1)
  IN IF i > 0 THEN [css EXCEPT ![i] = Append(css[i], c)]
     ELSE Append(css, <<c>>)

RECURSIVE placeAll(_, _, _)
placeAll(css, cs, k) ==
  IF k > Len(cs) THEN css ELSE placeAll(placeChunk(css, cs[k]), cs, k + 1)

\* partitionChunks on the sorted slice.
partitionSorted(sorted) == placeAll(<<>>, sorted, 1)

partitionChunks(cs) == partitionSorted(sortByMinTime(cs))

\* ------------------------------------------------------------ chunk.Batch
\* A batch holds its Length = Len(samples) samples of one kind and the read
\* cursor Index (0-based, as in the code).
MkBatch(samples, kind) == [samples |-> samples, Index |-> 0, ValueType |-> kind]

Length(b) == Len(b.samples)

\* Timestamps[k] of the code, k 0-based.
Timestamp(b, k) == b.samples[k + 1].t

\* The samples of a batch from its read cursor on.
unread(b) == SubSeq(b.samples, b.Index + 1, Length(b))

Min(a, b) == IF a < b THEN a ELSE b

\* ------------------------------------- the per-partition iterator (4.2)
\* The iterator of one partition: the partition's chunks, the chunk curr it
\* is in, and its current batch: the len samples of that chunk from position
\* pos on. curr > Len(chunks) is exhaustion. err is the decode error met.
newNonOverlappingIterator(chunks) ==
  [chunks |-> chunks, curr |-> 1, pos |-> 1, len |-> 0, err |-> nil]

itBatch(it) ==
  LET c == it.chunks[it.curr]
  IN MkBatch([k \in 1..it.len |-> SampleAt(c, it.pos + k - 1)], c.kind)

itAtTime(it) == it.chunks[it.curr].ts[it.pos]

itErr(it) == it.err

itHasBatch(it) == it.curr <= Len(it.chunks) /\ it.len > 0

RECURSIVE itNext(_, _)
\* Next(n): the next n samples at most of the current chunk; the following
\* chunk of the partition when the current one is used up.
itNext(it, n) ==
  IF it.curr > Len(it.chunks) THEN [it |-> [it EXCEPT !.len = 0], typ |-> ValNone]
  ELSE LET c == it.chunks[it.curr]
           p == it.pos + it.len
       IN IF c.bad
          THEN [it |-> [it EXCEPT !.len = 0, !.err = "decode"], typ |-> ValNone]
          ELSE IF p <= Len(c.ts)
          THEN [it |-> [it EXCEPT !.pos = p, !.len = Min(n, Len(c.ts) - p + 1)],
                typ |-> c.kind]
          ELSE itNext([it EXCEPT !.curr = it.curr + 1, !.pos = 1, !.len = 0], n)

RECURSIVE itSeekFrom(_, _, _, _)
itSeekFrom(it, t, n, ci) ==
  IF ci > Len(it.chunks)
  THEN [it |-> [it EXCEPT !.curr = ci, !.pos = 1, !.len = 0], typ |-> ValNone]
  ELSE LET c == it.chunks[ci]
       IN IF c.MaxTime < t THEN itSeekFrom(it, t, n, ci + 1)
          ELSE IF c.bad
          THEN [it |-> [it EXCEPT !.curr = ci, !.pos = 1, !.len = 0, !.err = "decode"],
                typ |-> ValNone]
          ELSE LET p == 1 + Cardinality({k \in 1..Len(c.ts) : c.ts[k] < t})
               IN [it |-> [it EXCEPT !.curr = ci, !.pos = p,
                                     !.len = Min(n, Len(c.ts) - p + 1)],
                   typ |-> c.kind]

\* Seek(t, n): the first sample of the partition at or after t, and at most
\* n samples of its chunk from there on.
itSeek(it, t, n) == itSeekFrom(it, t, n, 1)

\* ------------------------------------------------- mergeStreams (4.4)
RECURSIVE streamOf(_)
\* The samples a batchStream still holds, in order.
streamOf(bs) == IF bs = <<>> THEN <<>> ELSE unread(bs[1]) \o streamOf(Tail(bs))

RECURSIVE mergeSamples(_, _)
\* The sorted union of two ascending sample sequences; of two samples with
\* one timestamp the left one, which was there first, is kept.
mergeSamples(l, r) ==
  IF l = <<>> THEN r
  ELSE IF r = <<>> THEN l
  ELSE IF l[1].t < r[1].t THEN <<l[1]>> \o mergeSamples(Tail(l), r)
  ELSE IF l[1].t > r[1].t THEN <<r[1]>> \o mergeSamples(l, Tail(r))
  ELSE <<l[1]>> \o mergeSamples(Tail(l), Tail(r))

RECURSIVE splitBatches(_, _, _)
\* Cuts a sample sequence into batches: a batch ends when it holds size
\* samples or when the next sample is of another kind. acc is the batch
\* being filled.
splitBatches(ss, size, acc) ==
  IF ss = <<>> THEN (IF acc = <<>> THEN <<>> ELSE <<MkBatch(acc, acc[1].k)>>)
  ELSE IF acc # <<>> /\ (Len(acc) = size \/ acc[1].k # ss[1].k)
  THEN <<MkBatch(acc, acc[1].k)>> \o splitBatches(ss, size, <<>>)
  ELSE splitBatches(Tail(ss), size, Append(acc, ss[1]))

mergeStreams(left, right, size) ==
  splitBatches(mergeSamples(streamOf(left), streamOf(right)), size, <<>>)

\* --------------------------------------------------------- container/heap
\* The heap h is a sequence of indices into its; at[i] is its[i].AtTime().
\* Positions are 0-based as in container/heap: position k is h[k + 1].
\* iteratorHeap.Less
heapLess(h, at, i, j) == at[h[i + 1]] < at[h[j + 1]]

RECURSIVE heapDown(_, _, _, _)
\* down(h, i, n) of container/heap.
heapDown(h, at, i, n) ==
  LET j1 == 2 * i + 1
  IN IF j1 >= n THEN h
     ELSE LET j == IF j1 + 1 < n /\ heapLess(h, at, j1 + 1, j1) THEN j1 + 1 ELSE j1
          IN IF ~heapLess(h, at, j, i) THEN h
             ELSE heapDown(Swap(h, i + 1, j + 1), at, j, n)

RECURSIVE heapInitFrom(_, _, _)
heapInitFrom(h, at, i) ==
  IF i < 0 THEN h ELSE heapInitFrom(heapDown(h, at, i, Len(h)), at, i - 1)

\* heap.Init
heapInit(h, at) == heapInitFrom(h, at, (Len(h) \div 2) - 1)

heapFixNone(h, at) == h

\* heap.Fix(&c.h, 0): down from the root (up from the root does nothing).
heapFix0(h, at) == heapDown(h, at, 0, Len(h))

\* heap.Pop: swap root and last, sift the new root down, drop the last.
heapPop(h, at) ==
  LET n == Len(h) - 1
  IN SubSeq(heapDown(Swap(h, 1, n + 1), at, 0, n), 1, n)

\* AtTime() of every iterator; 0 stands in for iterators without a batch,
\* which the heap never holds.
atTimes(its) == [i \in DOMAIN its |-> IF itHasBatch(its[i]) THEN itAtTime(its[i]) ELSE 0]

\* ------------------------------------------------------------ the cursor
\* A mergeIterator c: its (one iterator per partition), the heap h, the
\* sorted batchStream batches, currErr, and the two pools. A pool is the
\* bag of the pooled values lying in it; the value of a sample is named by
\* the sample it was decoded for. puts is the log of the current call: the
\* values it has put back, each with the pool it went to.
ptr(s) == [v |-> s.v, t |-> s.t]

ptrsOf(samples) == {ptr(samples[i]) : i \in DOMAIN samples}

\* PointerValues[0..Length-1] of a batch, as a bag.
pointerValues(b) == SetToBag(ptrsOf(b.samples))

\* The log entries of putting the values of b into the pool named pool.
putLog(b, pool) == SetToBag({[pool |-> pool, p |-> x] : x \in ptrsOf(b.samples)})

\* Decoding the current batch of it borrows its values from the pools.
borrow(c, it) ==
  IF ~itHasBatch(it) THEN c
  ELSE LET b == itBatch(it)
       IN IF b.ValueType = ValHistogram
          THEN [c EXCEPT !.hPool = c.hPool (-) pointerValues(b)]
          ELSE IF b.ValueType = ValFloatHistogram
          THEN [c EXCEPT !.fhPool = c.fhPool (-) pointerValues(b)]
          ELSE c

putPointerValuesOneShort(c, b) ==
  LET short == [b EXCEPT !.samples = SubSeq(b.samples, 1, Length(b) - 1)]
  IN IF b.ValueType = ValHistogram
     THEN [c EXCEPT !.hPool = c.hPool (+) pointerValues(short),
                    !.puts = c.puts (+) putLog(short, "hPool")]
     ELSE IF b.ValueType = ValFloatHistogram
     THEN [c EXCEPT !.fhPool = c.fhPool (+) pointerValues(short),
                    !.puts = c.puts (+) putLog(short, "fhPool")]
     ELSE c

putPointerValuesToThePool(c, b) ==
  IF b.ValueType = ValHistogram
  THEN [c EXCEPT !.hPool = c.hPool (+) pointerValues(b),
                 !.puts = c.puts (+) putLog(b, "hPool")]
  ELSE IF b.ValueType = ValFloatHistogram
  THEN [c EXCEPT !.fhPool = c.fhPool (+) pointerValues(b),
                 !.puts = c.puts (+) putLog(b, "fhPool")]
  ELSE c

batchLen(c) == Len(c.batches)

currBatch(c) == c.batches[1]

removeAllBatches(c) == [c EXCEPT !.batches = <<>>]

removeFirstBatch(c) ==
  [putPointerValuesToThePool(c, c.batches[1]) EXCEPT !.batches = Tail(c.batches)]

nextBatchEndTime(c) == Timestamp(currBatch(c), Length(currBatch(c)) - 1)

RECURSIVE firstNexts(_, _)
\* The loop of newMergeIterator that takes the first batch of every
\* iterator: those that have one go into the heap, an error is recorded.
firstNexts(c, i) ==
  IF i > Len(c.its) THEN c
  ELSE LET r == itNext(c.its[i], 1)
           c1 == borrow([c EXCEPT !.its[i] = r.it], r.it)
       IN IF r.typ # ValNone
          THEN firstNexts([c1 EXCEPT !.h = Append(c.h, i)], i + 1)
          ELSE IF itErr(r.it) # nil
          THEN firstNexts([c1 EXCEPT !.currErr = itErr(r.it)], i + 1)
          ELSE firstNexts(c1, i + 1)

\* newMergeIterator(nil, cs)
newMergeIterator(cs) ==
  LET css == partitionChunks(cs)
      c0 == [its |-> [i \in 1..Len(css) |-> newNonOverlappingIterator(css[i])],
             h |-> <<>>, batches |-> <<>>, currErr |-> nil,
             hPool |-> EmptyBag, fhPool |-> EmptyBag, puts |-> EmptyBag]
      c1 == firstNexts(c0, 1)
  IN [c1 EXCEPT !.h = heapInit(c1.h, atTimes(c1.its))]

\* newNonOverlappingIterator(it, cs, ...) with it an iterator of an earlier
\* use: the iterator is taken again and starts over on the chunks cs.
resetNonOverlappingIterator(it, chunks) ==
  [it EXCEPT !.chunks = chunks, !.curr = 1, !.pos = 1, !.len = 0, !.err = nil]

newMergeIteratorKeepingErr(c, cs) ==
  LET css == partitionChunks(cs)
      c1 == [c EXCEPT
               !.its = [i \in 1..Len(css) |->
                          IF i <= Len(c.its)
                          THEN resetNonOverlappingIterator(c.its[i], css[i])
                          ELSE newNonOverlappingIterator(css[i])],
               !.h = <<>>, !.batches = <<>>]
      c2 == firstNexts(c1, 1)
  IN [c2 EXCEPT !.h = heapInit(c2.h, atTimes(c2.its))]

\* newMergeIterator(c, cs) with c a cursor built by newMergeIterator(nil, .)
\* and used since: cap(c.its) is the number of its iterators. With capacity
\* enough the slices are cut to length, the iterators of the earlier use
\* lying in c.its; without, they are made anew. The pools stay.
newMergeIteratorReusing(c, cs) ==
  LET css == partitionChunks(cs)
      c0 == [c EXCEPT !.currErr = nil]
      c1 == IF Len(c.its) >= Len(css)
            THEN [c0 EXCEPT
                    !.its = [i \in 1..Len(css) |->
                               resetNonOverlappingIterator(c.its[i], css[i])],
                    !.h = <<>>, !.batches = <<>>]
            ELSE [c0 EXCEPT
                    !.its = [i \in 1..Len(css) |-> newNonOverlappingIterator(css[i])],
                    !.h = <<>>, !.batches = <<>>]
      c2 == firstNexts(c1, 1)
  IN [c2 EXCEPT !.h = heapInit(c2.h, atTimes(c2.its))]

needsMergeStrict(c) ==
  Len(c.h) > 0 /\ (batchLen(c) = 0 \/ nextBatchEndTime(c) > itAtTime(c.its[c.h[1]]))

\* The condition of the loop of buildNextBatch.
needsMerge(c) ==
  Len(c.h) > 0 /\ (batchLen(c) = 0 \/ nextBatchEndTime(c) >= itAtTime(c.its[c.h[1]]))

mergeStepTruncate(batches, nextBatch, size) ==
  SubSeq(mergeStreams(batches, <<nextBatch>>, size), 1, 1)

mergeStepSkipping(batches, nextBatch, size) ==
  IF batches = <<>> THEN mergeStreams(batches, <<nextBatch>>, size) ELSE batches

\* The root's batch merged into the batchStream.
mergeStep(batches, nextBatch, size) == mergeStreams(batches, <<nextBatch>>, size)

advanceHeapPopAlways(h, its, typ) == heapPop(h, atTimes(its))

\* The heap after the root iterator has been advanced: re-sifted if it has
\* a batch, popped if not.
advanceHeap(h, its, typ) ==
  IF typ # ValNone THEN heapFix0(h, atTimes(its)) ELSE heapPop(h, atTimes(its))

RECURSIVE buildLoop(_, _)
buildLoop(c, size) ==
  IF ~needsMerge(c) THEN c
  ELSE LET r == c.h[1]
           merged == mergeStep(c.batches, itBatch(c.its[r]), size)
           nx == itNext(c.its[r], size)
           c1 == borrow([c EXCEPT !.its[r] = nx.it, !.batches = merged], nx.it)
       IN buildLoop([c1 EXCEPT !.h = advanceHeap(c.h, c1.its, nx.typ)], size)

\* One turn of the loop of buildNextBatch.
buildStep(c, size) ==
  LET r == c.h[1]
      merged == mergeStep(c.batches, itBatch(c.its[r]), size)
      nx == itNext(c.its[r], size)
      c1 == borrow([c EXCEPT !.its[r] = nx.it, !.batches = merged], nx.it)
  IN [c1 EXCEPT !.h = advanceHeap(c.h, c1.its, nx.typ)]

RECURSIVE buildTrace(_, _)
\* The cursor before every turn of the loop of buildNextBatch and after the
\* last one.
buildTrace(c, size) ==
  IF ~needsMerge(c) THEN <<c>> ELSE <<c>> \o buildTrace(buildStep(c, size), size)

\* The cursor as Next hands it to buildNextBatch.
retired(c) == IF batchLen(c) > 0 THEN removeFirstBatch(c) ELSE c

\* The decoded batch an iterator holds, named by its partition i and by
\* where it lies in the partition: the chunk, the position of its first
\* sample in the chunk, and its length.
batchId(i, it) == [part |-> i, chunk |-> it.curr, pos |-> it.pos, len |-> it.len]

RECURSIVE mergedIn(_, _)
\* The batches handed to mergeStreams in the turns tr[k], ... of the loop of
\* buildNextBatch: in each the batch c.h[0] holds when the turn starts.
mergedIn(tr, k) ==
  IF k >= Len(tr) THEN EmptyBag
  ELSE SetToBag({batchId(tr[k].h[1], tr[k].its[tr[k].h[1]])}) (+) mergedIn(tr, k + 1)

\* The batches a call of buildNextBatch hands to mergeStreams.
mergedBy(c, size) == mergedIn(buildTrace(c, size), 1)

buildNextBatchLastKind(c, size) ==
  LET c1 == buildLoop(c, size)
  IN [c |-> c1,
      typ |-> IF batchLen(c1) > 0 THEN Last(c1.batches).ValueType ELSE ValNone]

\* buildNextBatch: the cursor after the call and the value returned.
buildNextBatch(c, size) ==
  LET c1 == buildLoop(c, size)
  IN [c |-> c1,
      typ |-> IF batchLen(c1) > 0 THEN currBatch(c1).ValueType ELSE ValNone]

mergeNextKeeping(c, size) == buildNextBatch(c, size)

mergeNextRewinding(c, size) ==
  IF batchLen(c) > 0 THEN buildNextBatch(removeFirstBatch(c), size)
  ELSE LET c1 == firstNexts(
                   [c EXCEPT !.h = <<>>,
                             !.its = [i \in DOMAIN c.its |->
                                        newNonOverlappingIterator(c.its[i].chunks)]], 1)
       IN buildNextBatch([c1 EXCEPT !.h = heapInit(c1.h, atTimes(c1.its))], size)

\* Next
mergeNext(c, size) ==
  buildNextBatch(IF batchLen(c) > 0 THEN removeFirstBatch(c) ELSE c, size)

RECURSIVE seekBufferedRetiring(_, _)
seekBufferedRetiring(c, t) ==
  IF batchLen(c) = 0 THEN c
  ELSE LET b == currBatch(c)
           k == Cardinality({j \in 0..(Length(b) - 1) : Timestamp(b, j) < t})
       IN IF t >= Timestamp(b, 0) /\ t <= Timestamp(b, Length(b) - 1)
          THEN [putPointerValuesToThePool(c, [b EXCEPT !.samples = SubSeq(b.samples, 1, k)])
                  EXCEPT !.batches[1].Index = k]
          ELSE seekBufferedRetiring(removeFirstBatch(c), t)

RECURSIVE seekBufferedKeeping(_, _)
seekBufferedKeeping(c, t) ==
  IF batchLen(c) = 0 THEN c
  ELSE LET b == currBatch(c)
       IN IF t >= Timestamp(b, 0) /\ t <= Timestamp(b, Length(b) - 1)
          THEN [c EXCEPT !.batches[1].Index =
                  Cardinality({k \in 0..(Length(b) - 1) : Timestamp(b, k) < t})]
          ELSE IF t < Timestamp(b, 0) THEN c
          ELSE seekBufferedKeeping(removeFirstBatch(c), t)

RECURSIVE seekBufferedOvershoot(_, _)
seekBufferedOvershoot(c, t) ==
  IF batchLen(c) = 0 THEN c
  ELSE LET b == currBatch(c)
       IN IF t >= Timestamp(b, 0) /\ t <= Timestamp(b, Length(b) - 1)
          THEN [c EXCEPT !.batches[1].Index =
                  Cardinality({k \in 0..(Length(b) - 1) : Timestamp(b, k) <= t}) + 1]
          ELSE seekBufferedOvershoot(removeFirstBatch(c), t)

RECURSIVE seekBuffered(_, _)
\* The first loop of Seek: batches that do not hold t are removed; in the
\* batch that holds t the read cursor goes to the first sample not before t.
seekBuffered(c, t) ==
  IF batchLen(c) = 0 THEN c
  ELSE LET b == currBatch(c)
       IN IF t >= Timestamp(b, 0) /\ t <= Timestamp(b, Length(b) - 1)
          THEN [c EXCEPT !.batches[1].Index =
                  Cardinality({k \in 0..(Length(b) - 1) : Timestamp(b, k) < t})]
          ELSE seekBuffered(removeFirstBatch(c), t)

RECURSIVE seekIteratorsSkipping(_, _, _, _)
seekIteratorsSkipping(c, t, size, i) ==
  IF i > Len(c.its) THEN [c |-> c, failed |-> FALSE]
  ELSE LET r == itSeek(c.its[i], t, size)
           c1 == borrow([c EXCEPT !.its[i] = r.it], r.it)
       IN IF r.typ # ValNone
          THEN seekIteratorsSkipping([c1 EXCEPT !.h = Append(c.h, i)], t, size, i + 1)
          ELSE IF itErr(r.it) # nil
          THEN seekIteratorsSkipping([c1 EXCEPT !.currErr = itErr(r.it)], t, size, i + 1)
          ELSE seekIteratorsSkipping(c1, t, size, i + 1)

RECURSIVE seekIteratorsClearing(_, _, _, _)
seekIteratorsClearing(c0, t, size, i) ==
  LET c == IF i = 1 THEN [c0 EXCEPT !.currErr = nil] ELSE c0
  IN IF i > Len(c.its) THEN [c |-> c, failed |-> FALSE]
     ELSE LET r == itSeek(c.its[i], t, size)
              c1 == borrow([c EXCEPT !.its[i] = r.it], r.it)
          IN IF r.typ # ValNone
             THEN seekIteratorsClearing([c1 EXCEPT !.h = Append(c.h, i)], t, size, i + 1)
             ELSE IF itErr(r.it) # nil
             THEN [c |-> [c1 EXCEPT !.currErr = itErr(r.it)], failed |-> TRUE]
             ELSE seekIteratorsClearing(c1, t, size, i + 1)

RECURSIVE seekIteratorsLiveOnly(_, _, _, _)
seekIteratorsLiveOnly(c, t, size, i) ==
  IF i > Len(c.its) THEN [c |-> c, failed |-> FALSE]
  ELSE IF ~itHasBatch(c.its[i]) THEN seekIteratorsLiveOnly(c, t, size, i + 1)
  ELSE LET r == itSeek(c.its[i], t, size)
           c1 == borrow([c EXCEPT !.its[i] = r.it], r.it)
       IN IF r.typ # ValNone
          THEN seekIteratorsLiveOnly([c1 EXCEPT !.h = Append(c.h, i)], t, size, i + 1)
          ELSE IF itErr(r.it) # nil
          THEN [c |-> [c1 EXCEPT !.currErr = itErr(r.it)], failed |-> TRUE]
          ELSE seekIteratorsLiveOnly(c1, t, size, i + 1)

RECURSIVE seekIterators(_, _, _, _)
\* The loop of Seek over c.its; failed tells that it returned early.
seekIterators(c, t, size, i) ==
  IF i > Len(c.its) THEN [c |-> c, failed |-> FALSE]
  ELSE LET r == itSeek(c.its[i], t, size)
           c1 == borrow([c EXCEPT !.its[i] = r.it], r.it)
       IN IF r.typ # ValNone
          THEN seekIterators([c1 EXCEPT !.h = Append(c.h, i)], t, size, i + 1)
          ELSE IF itErr(r.it) # nil
          THEN [c |-> [c1 EXCEPT !.currErr = itErr(r.it)], failed |-> TRUE]
          ELSE seekIterators(c1, t, size, i + 1)

\* Seek
mergeSeek(c, t, size) ==
  LET c1 == seekBuffered(c, t)
  IN IF batchLen(c1) > 0 THEN buildNextBatch(c1, size)
     ELSE LET r == seekIterators([c1 EXCEPT !.h = <<>>, !.batches = <<>>], t, size, 1)
          IN IF r.failed THEN [c |-> r.c, typ |-> ValNone]
             ELSE buildNextBatch([r.c EXCEPT !.h = heapInit(r.c.h, atTimes(r.c.its))],
                                 size)

\* AtTime
AtTime(c) == Timestamp(currBatch(c), 0)

\* Batch
Batch(c) == currBatch(c)

\* Err
Err(c) == c.currErr

\* A cursor record at the start of a call: nothing put back yet.
startOfCall(c) == [c EXCEPT !.puts = EmptyBag]

\* ------------------------------------------------------- merge of merges
\* The heap is a slice of iterators, so an entry of it can be a merge
\* cursor. A nest n is the outer cursor o, whose heap holds indices into
\* inner, the inner merge cursors; c.its of the outer cursor holds none of
\* them, its elements being iterators of partitions.
\* AtTime() of every inner cursor; 0 stands in for those without a batch.
nestAtTimes(inner) ==
  [i \in DOMAIN inner |-> IF batchLen(inner[i]) > 0 THEN AtTime(inner[i]) ELSE 0]

RECURSIVE nestFirstNexts(_, _)
\* Every inner cursor takes its first batch; those that have one go into
\* the heap of the outer cursor.
nestFirstNexts(n, i) ==
  IF i > Len(n.inner) THEN n
  ELSE LET r == mergeNext(n.inner[i], 1)
           n1 == [n EXCEPT !.inner[i] = r.c]
       IN IF r.typ # ValNone
          THEN nestFirstNexts([n1 EXCEPT !.o.h = Append(n.o.h, i)], i + 1)
          ELSE nestFirstNexts(n1, i + 1)

\* The nest over the chunk slices parts, one inner cursor for each.
nestNew(parts) ==
  LET n0 == [inner |-> [i \in DOMAIN parts |-> newMergeIterator(parts[i])],
             o |-> [its |-> <<>>, h |-> <<>>, batches |-> <<>>, currErr |-> nil,
                    hPool |-> EmptyBag, fhPool |-> EmptyBag, puts |-> EmptyBag],
             flat |-> <<>>, ret |-> ValNone, flatRet |-> ValNone, lastOp |-> "new",
             out |-> <<>>, flatOut |-> <<>>]
      n1 == nestFirstNexts(n0, 1)
  IN [n1 EXCEPT !.o.h = heapInit(n1.o.h, nestAtTimes(n1.inner))]

RECURSIVE nestBuildLoop(_, _)
\* The loop of buildNextBatch of the outer cursor: c.h[0] is an inner
\* cursor.
nestBuildLoop(n, size) ==
  IF ~(Len(n.o.h) > 0 /\ (batchLen(n.o) = 0
                           \/ nextBatchEndTime(n.o) >= AtTime(n.inner[n.o.h[1]])))
  THEN n
  ELSE LET r == n.o.h[1]
           merged == mergeStep(n.o.batches, Batch(n.inner[r]), size)
           nx == mergeNext(startOfCall(n.inner[r]), size)
           inner1 == [n.inner EXCEPT ![r] = nx.c]
           h1 == IF nx.typ # ValNone THEN heapFix0(n.o.h, nestAtTimes(inner1))
                 ELSE heapPop(n.o.h, nestAtTimes(inner1))
       IN nestBuildLoop([n EXCEPT !.inner = inner1, !.o.batches = merged, !.o.h = h1], size)

\* buildNextBatch of the outer cursor.
nestBuildNextBatch(n, size) ==
  LET n1 == nestBuildLoop(n, size)
  IN [n |-> n1,
      typ |-> IF batchLen(n1.o) > 0 THEN currBatch(n1.o).ValueType ELSE ValNone]

\* Next of the outer cursor.
nestNext(n, size) ==
  LET o == startOfCall(n.o)
  IN nestBuildNextBatch([n EXCEPT !.o = IF batchLen(o) > 0 THEN removeFirstBatch(o) ELSE o],
                        size)

\* Seek of the outer cursor: without a buffered batch that holds t the heap
\* is emptied and filled again from c.its, which holds no inner cursor.
nestSeek(n, t, size) ==
  LET o1 == seekBuffered(startOfCall(n.o), t)
  IN IF batchLen(o1) > 0 THEN nestBuildNextBatch([n EXCEPT !.o = o1], size)
     ELSE LET r == seekIterators([o1 EXCEPT !.h = <<>>, !.batches = <<>>], t, size, 1)
          IN IF r.failed THEN [n |-> [n EXCEPT !.o = r.c], typ |-> ValNone]
             ELSE nestBuildNextBatch(
                    [n EXCEPT !.o = [r.c EXCEPT !.h = heapInit(r.c.h, atTimes(r.c.its))]],
                    size)

\* ------------------------------------- Ingester.ActiveNativeHistogramSeries
activeNativeHistogramSeriesChunkSize == 1048576

\* The bytes counted for the bucket count of a series.
bucketCountBytes == 8

\* The size of the labels of a series of the test.
testLabelsSize == 1024

\* A series of the head is a record: its reference ref, whether it is an
\* active native histogram series (nh), whether it matches the matchers of
\* the request (match), the size of its Metric message and its active
\* bucket count (buckets).
\*
\* The iterator over the active native histogram series that match: the
\* positions in the head of those series, in the order of the head.
listActiveNativeHistogramBuckets(head) ==
  SelectSeq([i \in DOMAIN head |-> i], LAMBDA i : head[i].match /\ head[i].nh)

\* The call up to the loop: the iterator, an empty response, currentSize 0.
streamStart(head) ==
  [pc |-> "loop", head |-> head, postings |-> listActiveNativeHistogramBuckets(head),
   pos |-> 1, resp |-> <<>>, currentSize |-> 0, sent |-> <<>>, err |-> nil]

overChunkSizeOrEqual(currentSize, mSize) ==
  currentSize + mSize >= activeNativeHistogramSeriesChunkSize

\* The test that ends a message.
overChunkSize(currentSize, mSize) ==
  currentSize + mSize > activeNativeHistogramSeriesChunkSize

\* client.SendActiveNativeHistogramSeriesResponse(stream, resp), succeeding.
sendResponse(st) == [st EXCEPT !.sent = Append(@, st.resp)]

\* One turn of the loop over nhPostings; seriesOk and sendOk say whether
\* idx.Series and the send, if one is made, succeed.
streamLoop(st, seriesOk, sendOk) ==
  LET s == st.head[st.postings[st.pos]]
      mSize == s.size + bucketCountBytes
      info == [ref |-> s.ref, size |-> s.size, BucketCount |-> s.buckets]
  IN IF ~seriesOk THEN [st EXCEPT !.pc = "done", !.err = "error getting series"]
     ELSE IF overChunkSize(st.currentSize, mSize)
     THEN IF ~sendOk THEN [st EXCEPT !.pc = "done", !.err = "error sending response"]
          ELSE [sendResponse(st) EXCEPT !.resp = <<info>>, !.currentSize = mSize,
                                        !.pos = @ + 1]
     ELSE [st EXCEPT !.resp = Append(@, info), !.currentSize = @ + mSize, !.pos = @ + 1]

streamFinishNoFlush(st, postingsOk, sendOk) ==
  IF ~postingsOk THEN [st EXCEPT !.pc = "done", !.err = "error iterating over series"]
  ELSE [st EXCEPT !.pc = "done"]

\* The end of the call, after the loop; postingsOk says whether
\* nhPostings.Err() is nil.
streamFinish(st, postingsOk, sendOk) ==
  IF ~postingsOk THEN [st EXCEPT !.pc = "done", !.err = "error iterating over series"]
  ELSE IF Len(st.resp) > 0
  THEN IF ~sendOk THEN [st EXCEPT !.pc = "done", !.err = "error sending response"]
       ELSE [sendResponse(st) EXCEPT !.pc = "done"]
  ELSE [st EXCEPT !.pc = "done"]

\* The sizes of Metric messages: that of the test, and those that with the
\* bucket count make half a chunk, a whole chunk, and more than a chunk.
MetricSizes ==
  {testLabelsSize,
   (activeNativeHistogramSeriesChunkSize \div 2) - bucketCountBytes,
   activeNativeHistogramSeriesChunkSize - bucketCountBytes,
   activeNativeHistogramSeriesChunkSize}

\* What a series is to the request: a native histogram series that
\* matches, a float series that matches, a native histogram series that
\* does not match.
SeriesSorts == {<<TRUE, TRUE>>, <<FALSE, TRUE>>, <<TRUE, FALSE>>}

\* The heads of n series.
Heads(n) ==
  {[i \in 1..n |-> [ref |-> i, nh |-> f[i][1][1], match |-> f[i][1][2],
                     size |-> f[i][2], buckets |-> i]] :
     f \in [1..n -> SeriesSorts \X MetricSizes]}

\* ------------------------------------------------------------ chunk sets
\* The chunk sets a caller supplies: up to MaxChunks float chunks with
\* timestamps in Times, the chunk at position i having identity i.
GenInputs ==
  UNION {
    {[i \in 1..n |-> MkChunk(i, ValFloat, SeqOfSet(f[i]))] :
       f \in [1..n -> (SUBSET Times) \ {{}}]} : n \in 0..MaxChunks}

\* The three histogram chunks of the end-to-end scenario.
ScenarioChunks ==
  <<MkChunk(1, ValHistogram, <<1000, 2000, 3000>>),
    MkChunk(2, ValHistogram, <<1500, 2500>>),
    MkChunk(3, ValHistogram, <<1000, 4000>>)>>

\* The ranges [0,10], [5,15], [20,30] in every order of supply.
RangeChunks ==
  LET rs == <<(<<0, 10>>), (<<5, 15>>), (<<20, 30>>)>>
  IN {[i \in 1..3 |-> MkChunk(i, ValFloat, rs[pi[i]])] :
        pi \in {f \in [1..3 -> 1..3] : \A a, b \in 1..3 : a # b => f[a] # f[b]}}

Inputs == GenInputs \cup {ScenarioChunks} \cup RangeChunks

\* Three partitions: chunks 1 and 3 in the first (samples at 0, then at
\* 2), chunk 2 in the second (samples at 0 and 1), and chunk 4, which fails
\* to decode, in the third.
SeekErrChunks ==
  <<MkChunk(1, ValFloat, <<0>>),
    MkChunk(2, ValFloat, <<0, 1>>),
    MkChunk(3, ValFloat, <<2>>),
    [MkChunk(4, ValFloat, <<0, 1, 2>>) EXCEPT !.bad = TRUE]>>

\* Two children, the first over a chunk at 0 and a later chunk that fails to
\* decode, the second over a chunk that overlaps both.
SeekErrFirstChild ==
  <<MkChunk(1, ValFloat, <<0>>),
    MkChunk(2, ValFloat, <<0, 1>>),
    [MkChunk(3, ValFloat, <<2>>) EXCEPT !.bad = TRUE]>>

\* The chunk sets whose last supplied chunk fails to decode; the order of
\* supply is free, so the failing chunk lies anywhere in time.
ErrInputs ==
  {[cs EXCEPT ![Len(cs)].bad = TRUE] : cs \in GenInputs \ {<<>>}}
    \cup {SeekErrChunks, SeekErrFirstChild}

\* The kinds of value a chunk can hold.
Kinds == <<ValFloat, ValHistogram, ValFloatHistogram>>

\* The kind given to the chunk supplied at position i with timestamps ts: it
\* varies with the position and with the first timestamp, so that chunks of
\* one set differ in kind, overlap or not, and a kind comes before or after
\* another in time.
kindOf(i, ts) == Kinds[((ts[1] + i) % Len(Kinds)) + 1]

\* The chunk is sampled at every timestamp from its first to its last.
Regular(c) == Len(c.ts) = c.MaxTime - c.MinTime + 1

\* Chunk sets with float, histogram and float histogram chunks mixed: those
\* of GenInputs whose chunks are regular and supplied in the order of their
\* first timestamps, each chunk given its kind by kindOf.
KindInputs ==
  {[i \in DOMAIN cs |-> MkChunk(i, kindOf(i, cs[i].ts), cs[i].ts)] :
     cs \in {g \in GenInputs :
               /\ \A i \in DOMAIN g : Regular(g[i])
               /\ \A i \in 1..(Len(g) - 1) : g[i].MinTime <= g[i + 1].MinTime}}

\* The chunk sets of the first use of a cursor that is reused: those of
\* KindInputs whose chunks all start at 0, so that every chunk has a
\* partition of its own, and the same with the last chunk failing to decode.
ResetInputs ==
  LET good == {cs \in KindInputs : \A i \in DOMAIN cs : cs[i].MinTime = 0}
  IN good \cup {[cs EXCEPT ![Len(cs)].bad = TRUE] : cs \in good \ {<<>>}}

\* The chunk sets handed to a used cursor: no chunk at all, or chunks that
\* all hold every timestamp, as many as partitions are wanted.
NewInputs ==
  {[i \in 1..n |-> MkChunk(i, kindOf(i, SeqOfSet(Times)), SeqOfSet(Times))] :
     n \in 0..MaxChunks}

\* Every timestamp of a chunk sequence.
AllTimes(cs) == UNION {Range(cs[i].ts) : i \in DOMAIN cs}

\* ------------------------------------------------------------------ state
VARIABLES
  input,     \* the caller's chunk slice
  supplied,  \* the chunk slice as the caller built it (history)
  pc,        \* "new" before newMergeIterator, "ready" after
  its, h, batches, currErr, hPool, fhPool,   \* the fields of the cursor
  ret,       \* the value the last Next or Seek returned
  lastOp,    \* the last call: "new", "Next" or "Seek"
  puts,      \* the values the last call put back into the pools
  fresh,     \* after a reuse: a cursor built from nothing over the same
             \* chunks and driven by the same calls, with what its last call
             \* returned; <<>> before
  nest,      \* a merge of merges beside a flat merge of the same chunks;
             \* <<>> where none is built
  stream,    \* an ActiveNativeHistogramSeries call: the head it reads, its
             \* locals and the messages sent; <<>> where none is made
  merges,    \* where on is set: the bag log of the decoded batches that
             \* Next calls have handed to mergeStreams (history)
  toggle,    \* MergeableBatchStreamEnabled (flag) and the buffers, other
             \* than those the cursor was built with, that its calls went
             \* to (strayed)
  sought,    \* the target of the last Seek, -1 before the first
  out        \* the samples the consumer has read since the last Seek
             \* (since construction before the first)

\* MergeableBatchStreamEnabled is false, as it is when the process starts,
\* and no cursor is built.
flagOff == [flag |-> FALSE, strayed |-> {}]

\* The buffer the code goes to when MergeableBatchStreamEnabled.Load()
\* returns flag.
bufferOf(flag) == IF flag THEN "mBatches" ELSE "batches"

vars == <<input, supplied, pc, its, h, batches, currErr, hPool, fhPool,
          ret, lastOp, puts, fresh, nest, stream, merges, toggle, sought, out>>

\* The cursor at the start of a call: nothing put back yet.
cursor ==
  [its |-> its, h |-> h, batches |-> batches, currErr |-> currErr,
   hPool |-> hPool, fhPool |-> fhPool, puts |-> EmptyBag]

setCursor(c) ==
  /\ its' = c.its
  /\ h' = c.h
  /\ batches' = c.batches
  /\ currErr' = c.currErr
  /\ hPool' = c.hPool
  /\ fhPool' = c.fhPool
  /\ puts' = c.puts

Init ==
  /\ input \in Inputs
  /\ supplied = input
  /\ pc = "new"
  /\ its = <<>>
  /\ h = <<>>
  /\ batches = <<>>
  /\ currErr = nil
  /\ hPool = EmptyBag
  /\ fhPool = EmptyBag
  /\ puts = EmptyBag
  /\ fresh = <<>>
  /\ nest = <<>>
  /\ stream = <<>>
  /\ merges = [on |-> FALSE, log |-> EmptyBag]
  /\ toggle = flagOff
  /\ ret = ValNone
  /\ lastOp = "new"
  /\ sought = -1
  /\ out = <<>>

\* The same start over the chunk sets with a chunk that fails to decode.
InitErr ==
  /\ input \in ErrInputs
  /\ supplied = input
  /\ pc = "new"
  /\ its = <<>>
  /\ h = <<>>
  /\ batches = <<>>
  /\ currErr = nil
  /\ hPool = EmptyBag
  /\ fhPool = EmptyBag
  /\ puts = EmptyBag
  /\ fresh = <<>>
  /\ nest = <<>>
  /\ stream = <<>>
  /\ merges = [on |-> FALSE, log |-> EmptyBag]
  /\ toggle = flagOff
  /\ ret = ValNone
  /\ lastOp = "new"
  /\ sought = -1
  /\ out = <<>>

\* The same start over the chunk sets of mixed kinds.
InitKinds ==
  /\ input \in KindInputs
  /\ supplied = input
  /\ pc = "new"
  /\ its = <<>>
  /\ h = <<>>
  /\ batches = <<>>
  /\ currErr = nil
  /\ hPool = EmptyBag
  /\ fhPool = EmptyBag
  /\ puts = EmptyBag
  /\ fresh = <<>>
  /\ nest = <<>>
  /\ stream = <<>>
  /\ merges = [on |-> FALSE, log |-> EmptyBag]
  /\ toggle = flagOff
  /\ ret = ValNone
  /\ lastOp = "new"
  /\ sought = -1
  /\ out = <<>>

\* The start of the cursor that is used and then handed a new chunk set.
InitReset ==
  /\ input \in ResetInputs
  /\ supplied = input
  /\ pc = "new"
  /\ its = <<>>
  /\ h = <<>>
  /\ batches = <<>>
  /\ currErr = nil
  /\ hPool = EmptyBag
  /\ fhPool = EmptyBag
  /\ puts = EmptyBag
  /\ fresh = <<>>
  /\ nest = <<>>
  /\ stream = <<>>
  /\ merges = [on |-> FALSE, log |-> EmptyBag]
  /\ toggle = flagOff
  /\ ret = ValNone
  /\ lastOp = "new"
  /\ sought = -1
  /\ out = <<>>

\* c := newMergeIterator(nil, input); partitionChunks sorts the slice it is
\* given in place.
NewMergeIterator ==
  /\ pc = "new"
  /\ pc' = "ready"
  /\ input' = sortByMinTime(input)
  /\ \E c \in {newMergeIterator(input)} : setCursor(c)
  /\ UNCHANGED <<supplied, ret, lastOp, fresh, nest, stream, merges, toggle, sought, out>>

\* c.Next(size); on a value the consumer reads the batch from Index on.
Next(size) ==
  /\ pc \in {"ready", "reused"}
  /\ \E r \in {mergeNext(cursor, size)} :
        /\ setCursor(r.c)
        /\ ret' = r.typ
        /\ out' = IF r.typ # ValNone THEN out \o unread(Batch(r.c)) ELSE out
  /\ fresh' = IF pc = "reused" THEN mergeNext(startOfCall(fresh.c), size) ELSE fresh
  /\ lastOp' = "Next"
  /\ merges' = IF merges.on
               THEN [merges EXCEPT !.log = @ (+) mergedBy(retired(cursor), size)]
               ELSE merges
  /\ UNCHANGED <<input, supplied, pc, nest, stream, toggle, sought>>

\* c.Seek(t, size); on a value the consumer reads the batch from Index on.
Seek(t, size) ==
  /\ pc \in {"ready", "reused"}
  /\ \E r \in {mergeSeek(cursor, t, size)} :
        /\ setCursor(r.c)
        /\ ret' = r.typ
        /\ out' = IF r.typ # ValNone THEN unread(Batch(r.c)) ELSE <<>>
  /\ fresh' = IF pc = "reused" THEN mergeSeek(startOfCall(fresh.c), t, size) ELSE fresh
  /\ lastOp' = "Seek"
  /\ sought' = t
  /\ UNCHANGED <<input, supplied, pc, nest, stream, merges, toggle>>

\* c = newMergeIterator(c, cs): the used cursor is handed the new chunk set
\* cs; the caller starts over with it.
Reset ==
  /\ pc = "ready"
  /\ pc' = "reused"
  /\ \E cs \in NewInputs :
        /\ supplied' = cs
        /\ input' = sortByMinTime(cs)
        /\ \E c \in {newMergeIteratorReusing(cursor, cs)} : setCursor(c)
        /\ fresh' = [c |-> newMergeIterator(cs), typ |-> ValNone]
  /\ ret' = ValNone
  /\ lastOp' = "new"
  /\ sought' = -1
  /\ out' = <<>>
  /\ UNCHANGED <<nest, stream, merges, toggle>>

\* A merge of merges is set up beside a flat merge: the first k chunks of
\* the slice go to one inner cursor and the rest to another, each built by
\* newMergeIterator; as newMergeIterator does with its iterators, each
\* inner cursor is advanced by Next(1) and goes into the heap of the outer
\* cursor if it has a value. The flat cursor is built over all the chunks.
NestNew ==
  /\ pc = "new" /\ nest = <<>>
  /\ \E k \in 0..Len(input) :
       LET parts == <<SubSeq(input, 1, k), SubSeq(input, k + 1, Len(input))>>
       IN /\ input' = sortByMinTime(parts[1]) \o sortByMinTime(parts[2])
          /\ nest' = [nestNew(parts) EXCEPT !.flat = newMergeIterator(input)]
  /\ UNCHANGED <<supplied, pc, its, h, batches, currErr, hPool, fhPool, puts,
                 fresh, stream, merges, toggle, ret, lastOp, sought, out>>

\* Next(size) on the outer cursor and on the flat cursor.
NestNext(size) ==
  /\ nest # <<>>
  /\ \E r \in {nestNext(nest, size)} : \E f \in {mergeNext(startOfCall(nest.flat), size)} :
       nest' = [r.n EXCEPT
                  !.flat = f.c, !.ret = r.typ, !.flatRet = f.typ, !.lastOp = "Next",
                  !.out = IF r.typ # ValNone THEN @ \o unread(Batch(r.n.o)) ELSE @,
                  !.flatOut = IF f.typ # ValNone THEN @ \o unread(Batch(f.c)) ELSE @]
  /\ UNCHANGED <<input, supplied, pc, its, h, batches, currErr, hPool, fhPool, puts,
                 fresh, stream, merges, toggle, ret, lastOp, sought, out>>

\* Seek(t, size) on the outer cursor and on the flat cursor.
NestSeek(t, size) ==
  /\ nest # <<>>
  /\ \E r \in {nestSeek(nest, t, size)} : \E f \in {mergeSeek(startOfCall(nest.flat), t, size)} :
       nest' = [r.n EXCEPT
                  !.flat = f.c, !.ret = r.typ, !.flatRet = f.typ, !.lastOp = "Seek",
                  !.out = IF r.typ # ValNone THEN unread(Batch(r.n.o)) ELSE <<>>,
                  !.flatOut = IF f.typ # ValNone THEN unread(Batch(f.c)) ELSE <<>>]
  /\ UNCHANGED <<input, supplied, pc, its, h, batches, currErr, hPool, fhPool, puts,
                 fresh, stream, merges, toggle, ret, lastOp, sought, out>>

NestNextAny == \E size \in Sizes : NestNext(size)

NestSeekAny == \E t \in SeekTargets : \E size \in Sizes : NestSeek(t, size)

NextAny == \E size \in Sizes : Next(size)

SeekAny == \E t \in SeekTargets \cup AllTimes(supplied) : \E size \in Sizes : Seek(t, size)

NextStep == NewMergeIterator \/ NextAny \/ SeekAny

Spec == Init /\ [][NextStep]_vars

\* The cursor over chunk sets with a decode error.
SpecErr == InitErr /\ [][NextStep]_vars

\* The start of an ActiveNativeHistogramSeries call: no cursor is built.
InitStream ==
  /\ \E n \in 0..MaxSeries : stream \in {[pc |-> "start", head |-> hd] : hd \in Heads(n)}
  /\ input = <<>>
  /\ supplied = input
  /\ pc = "new"
  /\ its = <<>>
  /\ h = <<>>
  /\ batches = <<>>
  /\ currErr = nil
  /\ hPool = EmptyBag
  /\ fhPool = EmptyBag
  /\ puts = EmptyBag
  /\ fresh = <<>>
  /\ nest = <<>>
  /\ merges = [on |-> FALSE, log |-> EmptyBag]
  /\ toggle = flagOff
  /\ ret = ValNone
  /\ lastOp = "new"
  /\ sought = -1
  /\ out = <<>>

\* The variables of the merge cursor, which a call of the ingester leaves
\* alone.
mergeVars == <<input, supplied, pc, its, h, batches, currErr, hPool, fhPool,
               ret, lastOp, puts, fresh, nest, merges, toggle, sought, out>>

\* ActiveNativeHistogramSeries up to its loop.
StreamStart ==
  /\ stream # <<>> /\ stream.pc = "start"
  /\ stream' = streamStart(stream.head)
  /\ UNCHANGED mergeVars

\* One turn of the loop: nhPostings.Next() is true.
StreamLoop ==
  /\ stream # <<>> /\ stream.pc = "loop" /\ stream.pos <= Len(stream.postings)
  /\ \E seriesOk, sendOk \in BOOLEAN : stream' = streamLoop(stream, seriesOk, sendOk)
  /\ UNCHANGED mergeVars

\* nhPostings.Next() is false: the end of the call.
StreamFinish ==
  /\ stream # <<>> /\ stream.pc = "loop" /\ stream.pos > Len(stream.postings)
  /\ \E postingsOk, sendOk \in BOOLEAN : stream' = streamFinish(stream, postingsOk, sendOk)
  /\ UNCHANGED mergeVars

NextStepStream == StreamStart \/ StreamLoop \/ StreamFinish

\* A call of ActiveNativeHistogramSeries.
SpecStream == InitStream /\ [][NextStepStream]_vars

\* A cursor over float chunks whose merges are logged.
InitMerges ==
  /\ input \in GenInputs
  /\ supplied = input
  /\ pc = "new"
  /\ its = <<>>
  /\ h = <<>>
  /\ batches = <<>>
  /\ currErr = nil
  /\ hPool = EmptyBag
  /\ fhPool = EmptyBag
  /\ puts = EmptyBag
  /\ fresh = <<>>
  /\ nest = <<>>
  /\ stream = <<>>
  /\ merges = [on |-> TRUE, log |-> EmptyBag]
  /\ toggle = flagOff
  /\ ret = ValNone
  /\ lastOp = "new"
  /\ sought = -1
  /\ out = <<>>

NextStepMerges == NewMergeIterator \/ NextAny

\* A cursor driven by Next alone.
SpecMerges == InitMerges /\ [][NextStepMerges]_vars

\* MergeableBatchStreamEnabled.Store(b) by some part of the process, after
\* the cursor was built.
StoreFlag ==
  /\ pc = "ready"
  /\ toggle' = [toggle EXCEPT !.flag = ~@]
  /\ UNCHANGED <<input, supplied, pc, its, h, batches, currErr, hPool, fhPool,
                 ret, lastOp, puts, fresh, nest, stream, merges, sought, out>>

\* Next or Seek while the flag is false: batchLen, currBatch,
\* removeFirstBatch and buildNextBatch go to c.batches.
LegacyCall == ~toggle.flag /\ (NextAny \/ SeekAny)

\* Next or Seek while the flag is true, on the cursor built while it was
\* false: the first thing either does is batchLen(), which goes to
\* c.mBatches, a nil pointer in this cursor; the call does not return.
StrayCall ==
  /\ pc = "ready"
  /\ toggle.flag
  /\ pc' = "panic"
  /\ toggle' = [toggle EXCEPT !.strayed = @ \cup {bufferOf(toggle.flag)}]
  /\ \E op \in {"Next", "Seek"} : lastOp' = op
  /\ UNCHANGED <<input, supplied, its, h, batches, currErr, hPool, fhPool,
                 ret, puts, fresh, nest, stream, merges, sought, out>>

NextStepFlag == NewMergeIterator \/ LegacyCall \/ StoreFlag \/ StrayCall

\* A cursor built while the flag is false, and stores to the flag after.
SpecFlag == Init /\ [][NextStepFlag]_vars

NextStepReset == NewMergeIterator \/ NextAny \/ SeekAny \/ Reset

\* The cursor that is used, handed a new chunk set once, and used again.
SpecReset == InitReset /\ [][NextStepReset]_vars

NextStepNest == NestNew \/ NestNextAny \/ NestSeekAny

\* The merge of merges beside the flat merge.
SpecNest == Init /\ [][NextStepNest]_vars

\* The cursor over chunk sets of mixed kinds.
SpecKinds == InitKinds /\ [][NextStep]_vars

\* ------------------------------------------------------------ properties
timesOf(samples) == [i \in DOMAIN samples |-> samples[i].t]

StrictlyAscending(ts) == \A i \in 1..(Len(ts) - 1) : ts[i] < ts[i + 1]

\* The cursor has been driven by Next alone and the last Next returned no
\* value.
Exhausted == pc = "ready" /\ lastOp = "Next" /\ ret = ValNone /\ sought = -1

RECURSIVE chunkSamplesFrom(_, _)
\* The samples of the chunks cs from chunk k on, in order.
chunkSamplesFrom(cs, k) ==
  IF k > Len(cs) THEN <<>>
  ELSE [j \in 1..Len(cs[k].ts) |-> SampleAt(cs[k], j)] \o chunkSamplesFrom(cs, k + 1)

\* The timestamps an iterator has not yet handed to the cursor: those of its
\* current batch and of everything behind it.
pendingTimes(it) ==
  IF ~itHasBatch(it) THEN {}
  ELSE {it.chunks[it.curr].ts[j] : j \in it.pos..Len(it.chunks[it.curr].ts)}
       \cup AllTimes(SubSeq(it.chunks, it.curr + 1, Len(it.chunks)))

\* The partitions partitionChunks returned, as the iterators hold them.
partitions == [i \in DOMAIN its |-> its[i].chunks]

\* C1: the samples read through successive Next calls (and after a Seek)
\* have strictly increasing timestamps, inside each batch and across
\* batches.
C1_GlobalOrdering == StrictlyAscending(timesOf(out))

C1_Witness ==
  /\ Exhausted
  /\ Len(its) >= 2
  /\ Len(out) >= 3
  /\ \E i, j \in DOMAIN out : out[i].v # out[j].v

\* C2: driven by Next alone, the cursor never drops a sample: at every
\* point each input timestamp has been read, is buffered, or is still
\* ahead in an iterator of the heap; and when Next returns no value the
\* timestamps read are exactly the input's timestamps, each once.
C2_EveryTimestampOnce ==
  /\ (pc = "ready" /\ sought = -1) =>
       Range(timesOf(out)) \cup Range(timesOf(streamOf(batches)))
         \cup UNION {pendingTimes(its[h[k]]) : k \in DOMAIN h}
       = AllTimes(supplied)
  /\ Exhausted => timesOf(out) = SeqOfSet(AllTimes(supplied))

\* A Next whose window was cut by the size cap: a second batch is buffered.
C2_Witness ==
  /\ pc = "ready" /\ sought = -1 /\ lastOp = "Next" /\ ret # ValNone
  /\ Len(batches) >= 2

\* C3: right after Seek(t, size): if an input sample is at or after t, a
\* value is returned and AtTime() is the smallest input timestamp >= t;
\* otherwise no value is returned and Err() is nil.
C3_SeekAtTime ==
  (pc = "ready" /\ lastOp = "Seek") =>
    LET later == {x \in AllTimes(supplied) : x >= sought}
    IN IF later # {}
       THEN ret # ValNone /\ AtTime(cursor) = (CHOOSE x \in later : \A y \in later : x <= y)
       ELSE ret = ValNone /\ Err(cursor) = nil

\* C4: when Next or Seek returns a value, every iterator in the heap is at
\* a timestamp strictly after the last timestamp of the batch handed out.
C4_WindowClosed ==
  (pc = "ready" /\ ret # ValNone) =>
    \A k \in DOMAIN h : itAtTime(its[h[k]]) > nextBatchEndTime(cursor)

C4_Witness ==
  /\ pc = "ready" /\ ret # ValNone /\ Len(h) >= 2
  /\ \E k \in DOMAIN h : itAtTime(its[h[k]]) = nextBatchEndTime(cursor) + 1

\* The first partition, in the order of partitionChunks, that holds a
\* sample at timestamp t.
firstPartitionAt(t) ==
  CHOOSE i \in DOMAIN its :
    /\ t \in AllTimes(its[i].chunks)
    /\ \A j \in DOMAIN its : t \in AllTimes(its[j].chunks) => i <= j

\* The identity of the chunk of partition i that holds timestamp t.
chunkIdAt(i, t) ==
  (CHOOSE c \in Range(its[i].chunks) : t \in Range(c.ts)).id

\* C5: of the samples at one timestamp the output keeps exactly one, that
\* of the first partition holding the timestamp.
C5_FirstPartitionWins ==
  Exhausted =>
    /\ StrictlyAscending(timesOf(out))
    /\ \A i \in DOMAIN out : out[i].v = chunkIdAt(firstPartitionAt(out[i].t), out[i].t)

\* No two chunks of cs overlap or touch.
NonOverlapping(cs) ==
  \A i, j \in DOMAIN cs :
    i # j => (cs[i].MaxTime < cs[j].MinTime \/ cs[j].MaxTime < cs[i].MinTime)

\* C6: for chunks that do not overlap the samples read until exhaustion are
\* the chunks' samples in ascending MinTime order, unchanged.
C6_RoundTrip ==
  (Exhausted /\ NonOverlapping(supplied)) =>
    out = chunkSamplesFrom(sortByMinTime(supplied), 1)

C6_Witness ==
  /\ Exhausted /\ NonOverlapping(supplied)
  /\ Len(supplied) >= 2 /\ Len(out) >= 3
  /\ supplied[1].MinTime > supplied[2].MinTime

\* C7: the three chunks {1000,2000,3000}, {1500,2500}, {1000,4000} merge
\* into 1000, 1500, 2000, 2500, 3000, 4000.
C7_Scenario ==
  (Exhausted /\ supplied = ScenarioChunks) =>
    timesOf(out) = <<1000, 1500, 2000, 2500, 3000, 4000>>

C7_Witness ==
  /\ Exhausted /\ supplied = ScenarioChunks
  /\ Len(out) = 6

\* The number of places the chunk c takes in the partitions.
placesOf(c) ==
  Cardinality({<<i, j>> \in (DOMAIN its) \X (1..Len(input)) :
                 j <= Len(its[i].chunks) /\ its[i].chunks[j] = c})

\* C8: every chunk supplied is in exactly one partition, once; the
\* partitions hold nothing else, and none is empty.
C8_ExactlyOnePartition ==
  pc = "ready" =>
    /\ \A k \in DOMAIN supplied : placesOf(supplied[k]) = 1
    /\ \A i \in DOMAIN its :
         /\ Len(its[i].chunks) >= 1
         /\ Range(its[i].chunks) \subseteq Range(supplied)

C8_Witness ==
  /\ pc = "ready" /\ Len(supplied) >= 2 /\ Len(its) >= 1
  /\ \E i \in DOMAIN its : Len(its[i].chunks) >= 2

\* C9: in every partition each chunk ends strictly before the next one
\* starts, so the partition is sorted by MinTime and holds no two chunks
\* that overlap or touch.
C9_PartitionsDisjoint ==
  pc = "ready" =>
    \A i \in DOMAIN its :
      \A j \in 1..(Len(its[i].chunks) - 1) :
        /\ its[i].chunks[j].MaxTime < its[i].chunks[j + 1].MinTime
        /\ its[i].chunks[j].MinTime < its[i].chunks[j + 1].MinTime

\* Two chunks that only touch, the later one supplied first, each in a
\* partition of its own.
C9_Witness ==
  /\ pc = "ready"
  /\ Len(supplied) = 2 /\ Len(its) = 2
  /\ supplied[1].MinTime < supplied[1].MaxTime
  /\ supplied[2].MinTime < supplied[2].MaxTime
  /\ supplied[2].MaxTime = supplied[1].MinTime

rangeOf(c) == <<c.MinTime, c.MaxTime>>

\* C10: the ranges [0,10], [5,15], [20,30], in any order of supply, make
\* the two partitions {[0,10],[20,30]} and {[5,15]}.
C10_TwoGroups ==
  (pc = "ready" /\ supplied \in RangeChunks) =>
    {[j \in DOMAIN partitions[i] |-> rangeOf(partitions[i][j])] : i \in DOMAIN partitions}
      = {<<(<<0, 10>>), (<<20, 30>>)>>, <<(<<5, 15>>)>>}

C10_Witness ==
  /\ pc = "ready" /\ supplied \in RangeChunks
  /\ rangeOf(supplied[1]) = <<20, 30>> /\ rangeOf(supplied[3]) = <<0, 10>>
  /\ Len(its) = 2

\* C11: once Err() is non-nil it stays non-nil through every Next and Seek.
C11_ErrSticky == [][currErr # nil => currErr' # nil]_vars

\* An error recorded at construction is still there after a Next that
\* returned a value and a Seek after it.
C11_Witness ==
  /\ pc = "ready" /\ currErr # nil
  /\ lastOp = "Seek" /\ ret # ValNone /\ Len(out) >= 1

\* C12: once an error is recorded every later Next and Seek returns no
\* value. (Seek records an error only when it returns no value, so a value
\* returned with Err() non-nil was returned after the error was recorded.)
C12_NoValueAfterError ==
  (pc = "ready" /\ lastOp # "new" /\ Err(cursor) # nil) => ret = ValNone

\* C13: a child iterator that met a decode error has its error on the
\* cursor.
C13_ChildErrorSurfaces ==
  pc = "ready" =>
    \A i \in DOMAIN its : itErr(its[i]) # nil => Err(cursor) = itErr(its[i])

\* The pool of the given name.
poolNamed(name) == IF name = "hPool" THEN hPool ELSE fhPool

\* C14: no pooled value is put back twice without being borrowed in
\* between: what a call puts back it puts back once, and none of it was
\* lying in its pool when the call began (a call puts back before it
\* decodes).
C14_NoDoublePut ==
  [][\A x \in BagToSet(puts') :
        /\ CopiesIn(x, puts') = 1
        /\ CopiesIn(x.p, poolNamed(x.pool)) = 0]_vars

\* After a Seek, a Next has put a histogram value back into a pool where
\* values of earlier calls lie.
C14_Witness ==
  /\ pc = "ready" /\ lastOp = "Next" /\ sought # -1
  /\ \E x \in BagToSet(puts) :
        /\ x.pool = "hPool" /\ CopiesIn(x.p, hPool) = 1
        /\ \E y \in BagToSet(hPool) : y # x.p

RECURSIVE removedBySeek(_, _)
\* The buffered batches a Seek to t has moved past: those before the first
\* batch whose time range holds t.
removedBySeek(bs, t) ==
  IF bs = <<>> THEN <<>>
  ELSE IF t >= Timestamp(bs[1], 0) /\ t <= Timestamp(bs[1], Length(bs[1]) - 1)
  THEN <<>>
  ELSE <<bs[1]>> \o removedBySeek(Tail(bs), t)

\* What retiring the batch b owes the pools: every value of a histogram
\* batch to hPool, of a float histogram batch to fhPool, nothing of a float
\* batch.
owedBy(b) ==
  IF b.ValueType = ValHistogram
  THEN SetToBag({[pool |-> "hPool", p |-> ptr(b.samples[k])] : k \in 1..Length(b)})
  ELSE IF b.ValueType = ValFloatHistogram
  THEN SetToBag({[pool |-> "fhPool", p |-> ptr(b.samples[k])] : k \in 1..Length(b)})
  ELSE EmptyBag

RECURSIVE owedByAll(_)
owedByAll(bs) == IF bs = <<>> THEN EmptyBag ELSE owedBy(bs[1]) (+) owedByAll(Tail(bs))

\* C15: a Next or Seek that removes buffered batches puts every value of
\* every removed histogram or float histogram batch back into the pool of
\* its kind exactly once, and nothing for a float batch.
C15_RemovedBatchReturned ==
  [][/\ (pc = "ready" /\ lastOp' = "Next") =>
          puts' = owedByAll(SubSeq(batches, 1, Min(1, Len(batches))))
     /\ (pc = "ready" /\ lastOp' = "Seek") =>
          puts' = owedByAll(removedBySeek(batches, sought'))]_vars

\* A Seek past the end of a float chunk has put back two values or more,
\* all of them float histograms into fhPool.
C15_Witness ==
  /\ pc = "ready" /\ lastOp = "Seek"
  /\ BagCardinality(puts) >= 2
  /\ \A x \in BagToSet(puts) : x.pool = "fhPool"
  /\ \E i \in DOMAIN supplied : supplied[i].kind = ValFloat /\ supplied[i].MaxTime < sought

\* The values lying in the current batches of the iterators, by kind.
decodedNow(kind) ==
  UNION {IF itHasBatch(its[i]) /\ itBatch(its[i]).ValueType = kind
         THEN ptrsOf(itBatch(its[i]).samples) ELSE {} : i \in DOMAIN its}

\* C16: a used cursor handed a new chunk set is like a cursor built from
\* nothing over the same chunks: right after the reuse and after every
\* sequence of Next and Seek calls the two agree on what the last call
\* returned, on Err, on the buffered batches (so on Batch and AtTime), on
\* the heap and on the iterators. The reuse keeps the pools: every value
\* that lay in a pool lies there still unless a first batch was decoded
\* into it, and none was added.
C16_ReuseLikeFresh ==
  /\ [](pc = "reused" =>
          /\ ret = fresh.typ
          /\ Err(cursor) = Err(fresh.c)
          /\ batches = fresh.c.batches
          /\ h = fresh.c.h
          /\ its = fresh.c.its)
  /\ [][(pc = "ready" /\ pc' = "reused") =>
          /\ \A x \in BagToSet(hPool) :
               CopiesIn(x, hPool') = 1 \/ x \in decodedNow(ValHistogram)'
          /\ \A x \in BagToSet(fhPool) :
               CopiesIn(x, fhPool') = 1 \/ x \in decodedNow(ValFloatHistogram)'
          /\ \A x \in BagToSet(hPool') : CopiesIn(x, hPool) = 1
          /\ \A x \in BagToSet(fhPool') : CopiesIn(x, fhPool) = 1]_vars

\* A used cursor was handed as many whole-range chunks as there can be
\* partitions and has returned a value by Next since, with histogram values
\* lying in the pool.
C16_Witness ==
  /\ pc = "reused" /\ lastOp = "Next" /\ ret # ValNone
  /\ Len(its) = MaxChunks
  /\ BagCardinality(hPool) > 0

\* C17: whenever the last Next or Seek returned a value, AtTime() is the
\* timestamp at the read position of the batch Batch() returns:
\* Timestamps[Index].
C17_AtTimeIsReadPosition ==
  (pc = "ready" /\ lastOp # "new" /\ ret # ValNone) =>
    AtTime(cursor) = Timestamp(Batch(cursor), Batch(cursor).Index)

\* C18: every buffered batch, so every batch Batch() returns, holds
\* samples of one kind, which is its ValueType; the kind the last Next or
\* Seek returned is the ValueType of the batch Batch() returns; samples of
\* two kinds therefore never share a batch.
C18_OneKindPerBatch ==
  pc = "ready" =>
    /\ \A i \in DOMAIN batches :
          /\ batches[i].ValueType \in Range(Kinds)
          /\ \A k \in DOMAIN batches[i].samples :
                batches[i].samples[k].k = batches[i].ValueType
    /\ (lastOp # "new" /\ ret # ValNone) =>
          batchLen(cursor) > 0 /\ ret = Batch(cursor).ValueType

\* Next has returned a batch of pointer-backed values while the batch
\* buffered behind it is of another kind: the merged order changes kind
\* between them.
C18_Witness ==
  /\ pc = "ready" /\ lastOp = "Next" /\ ret \in {ValHistogram, ValFloatHistogram}
  /\ Len(batches) >= 2
  /\ batches[2].ValueType # ret

\* C19: after newMergeIterator has returned, the caller's slice holds the
\* chunks it held before the call, in the same order and with the same
\* MinTime and MaxTime.
C19_InputUntouched == pc = "ready" => input = supplied

\* C20: a merge cursor in the heap of another merge cursor makes the outer
\* cursor produce the stream of the flat merge over all the chunks: after
\* the same Seek both have a value or neither has, and both are at the same
\* sample; driven to the end by Next both have produced the same samples.
C20_NestedLikeFlat ==
  nest # <<>> =>
    /\ nest.lastOp = "Seek" =>
          /\ (nest.ret = ValNone) = (nest.flatRet = ValNone)
          /\ nest.ret # ValNone => nest.out[1] = nest.flatOut[1]
    /\ (nest.lastOp = "Next" /\ nest.ret = ValNone /\ nest.flatRet = ValNone) =>
          nest.out = nest.flatOut

\* The min-heap order of h on the keys at: no entry is below its parent.
heapOrdered(hp, at) == \A i \in 2..Len(hp) : at[hp[i \div 2]] <= at[hp[i]]

\* C23: after newMergeIterator and after every Next or Seek, a Seek that
\* returns early on the error of a child included, the heap has the
\* min-heap order on AtTime() and its root has the smallest AtTime() of
\* the iterators in the heap.
C23_HeapOrder ==
  pc = "ready" =>
    /\ heapOrdered(h, atTimes(its))
    /\ \A i \in DOMAIN h : atTimes(its)[h[1]] <= atTimes(its)[h[i]]

\* The iterators that hold a decoded batch.
decoded(is) == {i \in DOMAIN is : itHasBatch(is[i])}

\* C24: with no error recorded, after construction and after every Next or
\* Seek the heap holds no iterator twice and holds exactly the iterators
\* with a decoded batch; in every turn of the loop of buildNextBatch the
\* root leaves the heap exactly when its Next returns no value, and the
\* other entries stay.
C24_HeapHoldsDecoded ==
  (pc = "ready" /\ currErr = nil) =>
    /\ Cardinality(Range(h)) = Len(h)
    /\ Range(h) = decoded(its)
    /\ \A size \in Sizes :
         LET tr == buildTrace(retired(cursor), size)
         IN /\ Last(tr) = buildLoop(retired(cursor), size)
            /\ \A k \in 1..(Len(tr) - 1) :
                 LET r == tr[k].h[1]
                 IN /\ Range(tr[k + 1].h) =
                         IF itHasBatch(tr[k + 1].its[r]) THEN Range(tr[k].h)
                         ELSE Range(tr[k].h) \ {r}
                    /\ Cardinality(Range(tr[k + 1].h)) = Len(tr[k + 1].h)

\* After a Next the heap holds one of two partitions, the other having
\* left it in that call, with no error recorded.
C24_Witness ==
  /\ pc = "ready" /\ currErr = nil /\ lastOp = "Next"
  /\ Len(its) = 2 /\ Len(h) = 1
  /\ \E i \in DOMAIN its : ~itHasBatch(its[i]) /\ its[i].curr > 1

\* Position p of chunk ci of a partition lies before the batch the
\* partition's iterator it holds (before its end when it holds none).
passed(it, ci, p) == ci < it.curr \/ (ci = it.curr /\ p < it.pos)

\* The logged batch id holds position p of chunk ci of partition i.
holds(id, i, ci, p) ==
  id.part = i /\ id.chunk = ci /\ id.pos <= p /\ p < id.pos + id.len

\* C25: in every turn of the loop of buildNextBatch the batch the root
\* holds is merged into the output and then the root, and no other
\* iterator, is advanced; over a run of Next calls every sample position
\* an iterator has passed lies in exactly one merged batch, no batch is
\* merged twice, and no batch an iterator still holds has been merged.
C25_MergedOnce ==
  pc = "ready" =>
    /\ \A id \in BagToSet(merges.log) : CopiesIn(id, merges.log) = 1
    /\ \A i \in DOMAIN its : \A ci \in DOMAIN its[i].chunks :
         \A p \in DOMAIN its[i].chunks[ci].ts :
           Cardinality({id \in BagToSet(merges.log) : holds(id, i, ci, p)}) =
             IF passed(its[i], ci, p) THEN 1 ELSE 0
    /\ \A size \in Sizes :
         LET tr == buildTrace(retired(cursor), size)
         IN \A k \in 1..(Len(tr) - 1) :
              LET r == tr[k].h[1]
              IN /\ tr[k + 1].batches =
                      mergeStreams(tr[k].batches, <<itBatch(tr[k].its[r])>>, size)
                 /\ tr[k + 1].its[r] = itNext(tr[k].its[r], size).it
                 /\ \A i \in DOMAIN its : i # r => tr[k + 1].its[i] = tr[k].its[i]

\* A run of Next calls has ended with two partitions exhausted and three
\* batches or more merged.
C25_Witness ==
  /\ pc = "ready" /\ lastOp = "Next" /\ ret = ValNone
  /\ Len(its) = 2 /\ h = <<>>
  /\ BagCardinality(merges.log) >= 3

\* Some buffered batch holds t between its first and its last timestamp.
inWindow(bs, t) ==
  \E k \in DOMAIN bs :
    Timestamp(bs[k], 0) <= t /\ t <= Timestamp(bs[k], Length(bs[k]) - 1)

\* C26: a Seek whose target lies in the buffered output window leaves the
\* heap and the position of every child iterator as they were.
C26_SeekInWindowKeepsHeap ==
  [][(pc = "ready" /\ lastOp' = "Seek" /\ inWindow(batches, sought'))
       => (Range(h') = Range(h) /\ its' = its)]_vars

\* The indices of the iterators, in the order of c.its, whose Seek(t, size)
\* returns a value.
seekable(is, t, size) ==
  SelectSeq([i \in DOMAIN is |-> i], LAMBDA i : itSeek(is[i], t, size).typ # ValNone)

\* C27: a Seek that finds its target in no buffered batch, and meets no
\* error of a child, empties the buffer and the heap and calls Seek(t,
\* size) on every child iterator, those popped earlier included; when the
\* loop over the children ends, before buildNextBatch, the buffer is empty
\* and the heap holds each child whose Seek returned a value once, and no
\* other.
C27_SeekRebuildsHeap ==
  pc = "ready" =>
    \A t \in SeekTargets : \A size \in Sizes :
      ~inWindow(batches, t) =>
        \E r \in {seekIterators([seekBuffered(cursor, t) EXCEPT !.h = <<>>], t, size, 1)} :
          \/ r.failed
          \/ /\ r.c.batches = <<>>
             /\ r.c.its = [i \in DOMAIN its |-> itSeek(its[i], t, size).it]
             /\ Range(r.c.h) = Range(seekable(its, t, size))
             /\ Len(r.c.h) = Len(seekable(its, t, size))

\* A Seek to 1 over chunks of one sample each, at 0 and at 2, has returned
\* a value: no buffered batch can hold 1, so every child was sought and
\* the heap was rebuilt.
C27_Witness ==
  /\ pc = "ready" /\ lastOp = "Seek" /\ sought = 1 /\ ret # ValNone
  /\ Len(supplied) = 2
  /\ \A i \in DOMAIN supplied : Len(supplied[i].ts) = 1
  /\ AllTimes(supplied) = {0, 2}

\* The first buffered batch that holds t between its first and its last
\* timestamp.
holder(bs, t) ==
  bs[CHOOSE k \in DOMAIN bs :
       /\ inWindow(<<bs[k]>>, t)
       /\ \A j \in 1..(k - 1) : ~inWindow(<<bs[j]>>, t)]

\* C28: after a Seek(t) that finds t inside a buffered batch, that batch is
\* the current batch with its timestamps and its Length as before, and its
\* Index, at least 0 and below Length, is the smallest position whose
\* timestamp is t or later.
C28_SeekIndex ==
  [][(pc = "ready" /\ lastOp' = "Seek" /\ inWindow(batches, sought'))
       => /\ batches' # <<>>
          /\ timesOf(batches'[1].samples) = timesOf(holder(batches, sought').samples)
          /\ batches'[1].Index >= 0 /\ batches'[1].Index < Length(batches'[1])
          /\ Timestamp(batches'[1], batches'[1].Index) >= sought'
          /\ \A j \in 0..(batches'[1].Index - 1) : Timestamp(batches'[1], j) < sought']_vars

\* The timestamps of the samples of the batches bs.
bufferedTimes(bs) == UNION {Range(timesOf(bs[k].samples)) : k \in DOMAIN bs}

\* C29: Next retires the first buffered batch and no other, and rebuilds:
\* the batches that were buffered behind the first stay in the buffer or
\* are merged into it, and nothing at or before the end of the retired
\* batch is buffered; Next returns the kind of the batch that is first
\* afterwards, and returns no value exactly when no batch is buffered,
\* which is only when the heap is empty.
C29_NextRetiresFirst ==
  [][(pc = "ready" /\ lastOp' = "Next")
       => /\ (ret' = ValNone) = (batches' = <<>>)
          /\ batches' # <<>> => ret' = batches'[1].ValueType
          /\ batches' = <<>> => h' = <<>>
          /\ batches # <<>> =>
               /\ bufferedTimes(Tail(batches)) \subseteq bufferedTimes(batches')
               /\ \A x \in bufferedTimes(batches') :
                    x > Timestamp(batches[1], Length(batches[1]) - 1)
               /\ its' = its => batches' = Tail(batches)]_vars

\* Next has returned the kind of the batch that is now first, another kind
\* than that of the first value read, with iterators left in the heap.
C29_Witness ==
  /\ pc = "ready" /\ lastOp = "Next" /\ ret # ValNone
  /\ Len(out) >= 2
  /\ batches # <<>> /\ batches[1].ValueType = ret
  /\ out[1].k # ret
  /\ h # <<>>

\* The partition that holds the chunk at position k of the sorted slice.
partOf(k) == CHOOSE i \in DOMAIN its : input[k] \in Range(its[i].chunks)

\* The positions before k of the sorted slice whose chunks partition i
\* holds.
placedBefore(i, k) == {j \in 1..(k - 1) : partOf(j) = i}

\* Partition i, as it is when the chunk at position k is placed, takes
\* that chunk: its last chunk ends strictly before the chunk starts.
qualifies(i, k) ==
  /\ placedBefore(i, k) # {}
  /\ LET l == CHOOSE j \in placedBefore(i, k) : \A x \in placedBefore(i, k) : x <= j
     IN input[l].MaxTime < input[k].MinTime

\* C30: the partitions are the first-fit assignment of the chunks taken in
\* ascending order of MinTime: each chunk is behind the others of the
\* lowest partition that takes it when its turn comes, and stands first in
\* a new partition, the next in number, only when none takes it; the
\* partitions are a function of the slice supplied.
C30_FirstFit ==
  pc = "ready" =>
    /\ \A k \in 1..(Len(input) - 1) : input[k].MinTime <= input[k + 1].MinTime
    /\ partitions = partitionChunks(supplied)
    /\ \A i \in DOMAIN its : \A a, b \in DOMAIN its[i].chunks :
         a < b => \E x, y \in DOMAIN input :
                    x < y /\ input[x] = its[i].chunks[a] /\ input[y] = its[i].chunks[b]
    /\ \A k \in DOMAIN input :
         /\ \A i \in 1..(partOf(k) - 1) : placedBefore(i, k) # {} /\ ~qualifies(i, k)
         /\ placedBefore(partOf(k), k) # {} => qualifies(partOf(k), k)
         /\ placedBefore(partOf(k), k) = {} =>
              \A i \in DOMAIN its : i > partOf(k) => placedBefore(i, k) = {}

\* Three chunks in two partitions, the last to be placed taken by both and
\* standing in the first.
C30_Witness ==
  /\ pc = "ready" /\ Len(input) = 3 /\ Len(its) = 2
  /\ qualifies(1, 3) /\ qualifies(2, 3)
  /\ partOf(3) = 1

\* The number of chunks of cs whose inclusive range holds the time point x.
covering(cs, x) == Cardinality({k \in DOMAIN cs : cs[k].MinTime <= x /\ x <= cs[k].MaxTime})

\* The largest number of chunks of cs that share a time point; a largest
\* set of ranges with a common point has the greatest MinTime among them
\* in common.
maxOverlap(cs) ==
  IF cs = <<>> THEN 0
  ELSE LET ns == {covering(cs, cs[k].MinTime) : k \in DOMAIN cs}
       IN CHOOSE n \in ns : \A m \in ns : m <= n

\* The assignment g of the chunks of cs to groups keeps chunks that share
\* a time point apart.
nonOverlapping(cs, g) ==
  \A a, b \in DOMAIN cs :
    (a # b /\ g[a] = g[b]) => (cs[a].MaxTime < cs[b].MinTime \/ cs[b].MaxTime < cs[a].MinTime)

\* C31: partitionChunks returns as many partitions as the largest number
\* of chunks that share a time point, and no assignment of the chunks to
\* fewer groups keeps overlapping chunks apart. (The partitions are made
\* by newMergeIterator and are looked at when it returns.)
C31_FewestPartitions ==
  (pc = "ready" /\ lastOp = "new") =>
    /\ Len(its) = maxOverlap(supplied)
    /\ \A n \in 0..(Len(its) - 1) :
         \A g \in [DOMAIN supplied -> 1..n] : ~nonOverlapping(supplied, g)

\* Three chunks of which no more than two share a time point, in two
\* partitions.
C31_Witness ==
  /\ pc = "ready" /\ lastOp = "new" /\ Len(supplied) = 3
  /\ maxOverlap(supplied) = 2 /\ Len(its) = 2

\* C32: the batch that Next(size) hands out, and the batch that a
\* Seek(t, size) which found its target in no buffered batch hands out,
\* holds size samples at most.
C32_BatchWithinSize ==
  pc = "ready" =>
    \A size \in Sizes :
      /\ \E r \in {mergeNext(cursor, size)} :
           r.typ # ValNone => Length(Batch(r.c)) <= size
      /\ \A t \in SeekTargets :
           ~inWindow(batches, t) =>
             \E r \in {mergeSeek(cursor, t, size)} :
               r.typ # ValNone => Length(Batch(r.c)) <= size

\* C33: no store to MergeableBatchStreamEnabled after the cursor was built
\* makes a call of the cursor go to a buffer of the strategy it was not
\* built with, and every call returns.
C33_StrategyFixed ==
  pc # "new" => (toggle.strayed = {} /\ pc # "panic")

\* The children of the cursor c whose Seek(t, size) returns no value with an
\* error.
failingSeeks(c, t, size) ==
  {i \in DOMAIN c.its :
     \E r \in {itSeek(c.its[i], t, size)} : r.typ = ValNone /\ itErr(r.it) # nil}

\* The least index of a non-empty set of indices.
firstOf(S) == CHOOSE i \in S : \A j \in S : i <= j

\* C34: when Seek goes to the children and the Seek of a child returns no
\* value with an error, the Seek of the cursor returns no value, Err() is
\* the error of the first such child, and the children after it are not
\* sought; and right after construction Err() is non-nil if the first
\* Next(1) of a child failed with an error.
C34_ChildErrorStopsSeek ==
  pc = "ready" =>
    /\ lastOp = "new" =>
         \A i \in DOMAIN its : itErr(its[i]) # nil => Err(cursor) # nil
    /\ \A t \in SeekTargets : \A size \in Sizes :
         (batchLen(seekBuffered(cursor, t)) = 0
            /\ failingSeeks(cursor, t, size) # {}) =>
           \E r \in {mergeSeek(cursor, t, size)} :
             \E i \in {firstOf(failingSeeks(cursor, t, size))} :
               /\ r.typ = ValNone
               /\ Err(r.c) = itErr(itSeek(its[i], t, size).it)
               /\ Err(r.c) # nil
               /\ \A j \in DOMAIN its : j > i => r.c.its[j] = its[j]

\* Construction went without an error, Next returned the samples of the
\* first chunk, and the Seek then met the chunk that fails to decode in the
\* first of two children: it returned no value with the error recorded, and
\* the second child was left where it was.
C34_Witness ==
  /\ pc = "ready" /\ lastOp = "Seek" /\ ret = ValNone
  /\ Len(its) = 2
  /\ its[1].curr > 1 /\ its[1].curr <= Len(its[1].chunks)
  /\ its[1].chunks[its[1].curr].bad
  /\ itErr(its[1]) # nil /\ Err(cursor) = itErr(its[1])
  /\ itErr(its[2]) = nil /\ itHasBatch(its[2])

\* The timestamp of the sample at the read cursor of the current batch; -1
\* when no batch is buffered or the batch is read to its end.
readPosition(c) ==
  IF batchLen(c) = 0 \/ currBatch(c).Index >= Length(currBatch(c)) THEN -1
  ELSE Timestamp(currBatch(c), currBatch(c).Index)

RECURSIVE drain(_, _, _)
\* The samples read by successive Next(size) calls until one returns no
\* value (n bounds the number of calls).
drain(c, size, n) ==
  IF n = 0 THEN <<>>
  ELSE LET r == mergeNext(c, size)
       IN IF r.typ = ValNone THEN <<>>
          ELSE unread(Batch(r.c)) \o drain(r.c, size, n - 1)

\* The samples read after Seek(t, size): the current batch from Index on,
\* then the batches of the Next calls.
readFromSeek(c, t, size) ==
  LET r == mergeSeek(c, t, size)
  IN IF r.typ = ValNone THEN <<>>
     ELSE unread(Batch(r.c)) \o drain(r.c, size, Cardinality(AllTimes(supplied)) + 1)

\* C35: after a Seek(t, size) with t not before the read position, the
\* samples read from Batch() at Index on and from the Next calls that
\* follow, until one returns no value, are at the input timestamps >= t,
\* each once, in ascending order.
C35_SeekThenDrain ==
  pc = "ready" =>
    \A t \in SeekTargets \cup AllTimes(supplied) : \A size \in Sizes :
      t >= readPosition(cursor) =>
        timesOf(readFromSeek(cursor, t, size))
          = SeqOfSet({x \in AllTimes(supplied) : x >= t})

\* The buffered batches the first loop of Seek(t) removes.
discardedBy(c, t) ==
  SubSeq(c.batches, 1, Len(c.batches) - Len(seekBuffered(c, t).batches))

earliest(S) == CHOOSE x \in S : \A y \in S : x <= y

C37_BufferedBatchesValid ==
  pc = "ready" =>
    \A k \in DOMAIN batches :
      /\ Length(batches[k]) >= 1
      /\ 0 <= batches[k].Index /\ batches[k].Index <= Length(batches[k])

\* A Seek has moved the read cursor of the current batch forward, with
\* another batch buffered behind it.
C37_Witness ==
  /\ pc = "ready" /\ lastOp = "Seek" /\ ret # ValNone
  /\ Len(batches) >= 2
  /\ batches[1].Index >= 1

RECURSIVE pendingIn(_, _)
\* The number of samples the iterators at the positions k, ... of the heap
\* have not yet handed to the cursor.
pendingIn(c, k) ==
  IF k > Len(c.h) THEN 0
  ELSE Cardinality(pendingTimes(c.its[c.h[k]])) + pendingIn(c, k + 1)

RECURSIVE lengthOf(_)
\* The number of samples of the batches bs.
lengthOf(bs) == IF bs = <<>> THEN 0 ELSE Length(bs[1]) + lengthOf(Tail(bs))

\* The work left to a cursor: two for a sample still with a child in the
\* heap (it is merged, then retired), one for a buffered sample.
work(c) == 2 * pendingIn(c, 1) + lengthOf(c.batches)

\* Every turn of the loop recorded in tr leaves less work.
consumes(tr) == \A k \in 1..(Len(tr) - 1) : work(tr[k + 1]) < work(tr[k])

\* C38: every turn of the loop of buildNextBatch, in Next and in Seek,
\* takes a batch from a child and leaves less work, so the loop ends; and
\* every Next that returns a value leaves less work than there was before
\* it, so of the Next calls that follow one another no more than the work
\* at the first of them return a value: the next one returns no value.
C38_Termination ==
  /\ [](pc = "ready" =>
          \A size \in Sizes :
            /\ consumes(buildTrace(retired(cursor), size))
            /\ \A t \in SeekTargets \cup AllTimes(supplied) :
                 \E c1 \in {seekBuffered(cursor, t)} :
                   IF batchLen(c1) > 0 THEN consumes(buildTrace(c1, size))
                   ELSE \E r \in {seekIterators([c1 EXCEPT !.h = <<>>], t, size, 1)} :
                          ~r.failed =>
                            consumes(buildTrace(
                              [r.c EXCEPT !.h = heapInit(r.c.h, atTimes(r.c.its))], size)))
  /\ [][(pc = "ready" /\ lastOp' = "Next" /\ ret' # ValNone)
          => work(cursor') < work(cursor)]_vars
  /\ [][(pc = "ready" /\ lastOp' = "Next" /\ work(cursor) = 0) => ret' = ValNone]_vars

\* After a Seek the Next calls have read on from two children and the last
\* of them returned no value.
C38_Witness ==
  /\ pc = "ready" /\ lastOp = "Next" /\ ret = ValNone
  /\ sought >= 0
  /\ Len(its) >= 2 /\ Len(out) >= 2

\* C39: once Next has returned no value the heap and the buffer are empty,
\* and a Next called then, with any size, returns no value and leaves them
\* empty.
C39_ExhaustionStable ==
  (pc = "ready" /\ lastOp = "Next" /\ ret = ValNone) =>
    /\ h = <<>> /\ batches = <<>>
    /\ \A size \in Sizes :
         \E r \in {mergeNext(cursor, size)} :
           r.typ = ValNone /\ r.c.h = <<>> /\ r.c.batches = <<>>

\* Next has returned no value after the samples of two children were read,
\* some of them after a Seek.
C39_Witness ==
  /\ pc = "ready" /\ lastOp = "Next" /\ ret = ValNone
  /\ Len(its) >= 2 /\ sought >= 1 /\ Len(out) >= 1
  /\ \A i \in DOMAIN its : ~itHasBatch(its[i])

\* C40: no message sent on the stream is without series.
C40_NoEmptyMessage ==
  (stream # <<>> /\ stream.pc # "start") =>
    \A i \in DOMAIN stream.sent : stream.sent[i] # <<>>

RECURSIVE flatten(_)
\* The series of a sequence of messages, one after the other.
flatten(msgs) == IF msgs = <<>> THEN <<>> ELSE msgs[1] \o flatten(Tail(msgs))

RECURSIVE messageSize(_)
\* The size a message has accumulated: for each of its series the size of
\* the Metric and the bytes of the bucket count.
messageSize(msg) ==
  IF msg = <<>> THEN 0 ELSE msg[1].size + bucketCountBytes + messageSize(Tail(msg))

\* The references of the native histogram series of the head that match,
\* in the order of the head.
matchingNative(head) ==
  LET m == SelectSeq(head, LAMBDA x : x.nh /\ x.match)
  IN [i \in DOMAIN m |-> m[i].ref]

\* C21: a call that ends without error has sent every native histogram
\* series that matches exactly once, in the order of the postings, and no
\* other series; until then the series sent and the series of the message
\* being filled are those the iterator has yielded so far.
C21_EverySeriesOnce ==
  (stream # <<>> /\ stream.pc # "start") =>
    LET got == flatten(stream.sent) \o (IF stream.pc = "done" THEN <<>> ELSE stream.resp)
        all == matchingNative(stream.head)
    IN /\ stream.err = nil =>
            [i \in DOMAIN got |-> got[i].ref] = SubSeq(all, 1, stream.pos - 1)
       /\ (stream.pc = "done" /\ stream.err = nil) =>
            /\ stream.pos - 1 = Len(all)
            /\ Len(flatten(stream.sent)) = Len(all)

\* A call over a head with a float series and a series that does not match
\* has ended without error and has sent two messages or more.
C21_Witness ==
  /\ stream # <<>> /\ stream.pc = "done" /\ stream.err = nil
  /\ Len(stream.sent) >= 2
  /\ \E i \in DOMAIN stream.head : ~stream.head[i].nh
  /\ \E i \in DOMAIN stream.head : ~stream.head[i].match

RECURSIVE greedyCount(_, _, _)
\* The number of messages of the greedy grouping of series of the sizes
\* ms: a message ends when the next series would take it above the chunk
\* size; acc is the size of the message being filled, open says whether it
\* holds a series.
greedyCount(ms, acc, open) ==
  IF ms = <<>> THEN (IF open THEN 1 ELSE 0)
  ELSE IF acc + ms[1] > activeNativeHistogramSeriesChunkSize
  THEN 1 + greedyCount(Tail(ms), ms[1], TRUE)
  ELSE greedyCount(Tail(ms), acc + ms[1], TRUE)

\* C22: messages are filled greedily up to the chunk size: a message of
\* more than one series is not above the chunk size, the series after a
\* sent message would have taken it above the chunk size, currentSize is
\* the size of the message being filled, and a call that ends without
\* error has sent the number of messages of the greedy grouping.
C22_GreedyChunks ==
  (stream # <<>> /\ stream.pc # "start" /\ stream.err = nil) =>
    LET groups == stream.sent \o (IF stream.pc = "done" THEN <<>> ELSE <<stream.resp>>)
        filtered == SelectSeq(stream.head, LAMBDA x : x.nh /\ x.match)
    IN /\ \A i \in DOMAIN groups :
            Len(groups[i]) > 1 => messageSize(groups[i]) <= activeNativeHistogramSeriesChunkSize
       /\ \A i \in 1..(Len(groups) - 1) :
            groups[i + 1] # <<>>
            /\ messageSize(groups[i]) + groups[i + 1][1].size + bucketCountBytes
                 > activeNativeHistogramSeriesChunkSize
       /\ stream.pc = "loop" => stream.currentSize = messageSize(stream.resp)
       /\ stream.pc = "done" =>
            Len(stream.sent) =
              greedyCount([i \in DOMAIN filtered |-> filtered[i].size + bucketCountBytes],
                          0, FALSE)

\* A call has ended without error after sending a message of two series
\* that is exactly one chunk in size, and another message.
C22_Witness ==
  /\ stream # <<>> /\ stream.pc = "done" /\ stream.err = nil
  /\ Len(stream.sent) >= 2
  /\ \E i \in DOMAIN stream.sent :
        Len(stream.sent[i]) = 2
        /\ messageSize(stream.sent[i]) = activeNativeHistogramSeriesChunkSize

====
